---- MODULE Spec2Model ----
(***************************************************************************)
(* The sandboxed task runners of the repository:                           *)
(*   "lib"  run_agent              of run_agent.py                         *)
(*   "api"  the /agent/run handler of examples/api_server.py               *)
(*   "sync" run_agent_in_sandbox   of examples/basic_sync.py               *)
(* One run is a sequence of awaited provider calls (create, files.write,   *)
(* commands.run, kill).  Every provider call is split into its issue and   *)
(* its return, the return being the provider's choice (success, failure,   *)
(* timeout).  Python's try/finally is modelled by a pending exception or   *)
(* a pending return value that the finally block may replace.              *)
(***************************************************************************)
EXTENDS Integers, Sequences, FiniteSets, TLC

VARIABLES
    runner,     \* which task runner this run executes
    cfg,        \* the process environment: which variables are set
    timeout,    \* the sandbox timeout of the run (seconds)
    pc,         \* position of the runner
    calls,      \* log of provider calls and their returns, in order
    sandbox,    \* TRUE once the runner holds a sandbox handle
    pending,    \* exception raised / value returned inside try, not yet delivered
    outcome,    \* what the caller of the runner observes
    result,     \* the CommandResult of commands.run
    hangs,      \* the remote program never completes
    elapsed,    \* seconds waited on commands.run
    gen,        \* whose program text is generated: "lib" or "api"
    request,    \* the caller's prompt, allowed_tools and model
    agent_code, \* the generated program, a sequence of characters
    received,   \* what the generated program hands to query() when run
    cpc,        \* position of the generation: "idle", "input", "rendered", "executed"
    conc,       \* concurrent /agent/run requests and the provider's sandboxes
    pair,       \* basic_sync.py and examples/run_agent.py given the same answers
    org,        \* one run of main of agents/organizer/run.py
    prog,       \* one run of the generated program inside the sandbox
    cli         \* the command line of run_agent.py and what main prints

cvars == <<gen, request, agent_code, received, cpc>>

xvars == <<conc, pair, org, prog, cli>>

rvars == <<runner, cfg, timeout, pc, calls, sandbox, pending, outcome, result,
           hangs, elapsed>>

----------------------------------------------------------------------------
\* Bounds of the model

MaxTimeout == 2
MaxOut == 2
MaxErr == 1
MaxPrompt == 2
MaxTools == 2
MaxToolName == 1
MaxModel == 1

\* Program constants
SyncCreateTimeout == 120
SyncRunTimeout == 60
ValCreateTimeout == 60
NChecks == 4

----------------------------------------------------------------------------
\* Strings are sequences of one-character strings; a fixed message of the
\* source is kept as one element.

RECURSIVE SeqsUpTo(_, _)
SeqsUpTo(S, n) ==
    IF n = 0 THEN {<<>>}
    ELSE LET shorter == SeqsUpTo(S, n - 1)
         IN  shorter \cup {Append(s, c) : s \in shorter, c \in S}

Whitespace == {" ", "\n"}

\* str.strip(): leading and trailing whitespace removed
RECURSIVE LStrip(_)
LStrip(s) ==
    IF s # <<>> /\ Head(s) \in Whitespace THEN LStrip(Tail(s)) ELSE s

RECURSIVE RStrip(_)
RStrip(s) ==
    IF s # <<>> /\ s[Len(s)] \in Whitespace
    THEN RStrip(SubSeq(s, 1, Len(s) - 1)) ELSE s

Strip(s) == RStrip(LStrip(s))

\* Python's `needle in hay` for strings
Contains(hay, needle) ==
    \E i \in 1..(Len(hay) + 1) :
        /\ i + Len(needle) - 1 <= Len(hay)
        /\ SubSeq(hay, i, i + Len(needle) - 1) = needle

Stdouts == SeqsUpTo({" ", "\n", "4"}, MaxOut)
Stderrs == SeqsUpTo({"b"}, MaxErr)

CommandResults ==
    [exit_code : {0, 1}, stdout : Stdouts, stderr : Stderrs]

NoResult == [exit_code |-> 0, stdout |-> <<>>, stderr |-> <<>>]

\* A value on its way to the caller: kind is "none", "raise" or "return".
Val(kind, tag, text, sid) ==
    [kind |-> kind, tag |-> tag, text |-> text, sandbox_id |-> sid]

NoVal == Val("none", "none", <<>>, FALSE)

Raise(tag, text) == Val("raise", tag, text, FALSE)

\* str(e) of a provider exception
ProviderError(op) == <<op \o " failed">>

Runners == {"lib", "api", "sync"}

\* The task runners and validate_setup.py
AllRunners == Runners \cup {"validate"}

Configs ==
    [E2B_TEMPLATE_ID : BOOLEAN, CLAUDE_CODE_OAUTH_TOKEN : BOOLEAN,
     E2B_API_KEY : BOOLEAN]

----------------------------------------------------------------------------
\* Program generation.  The program text is a sequence of characters; a
\* stretch of the template that holds no interpolated text is one element.

Quote == "\""
Backslash == "\\"
Newline == "\n"
Bell == "BEL"

RECURSIVE Concat(_)
Concat(ss) == IF ss = <<>> THEN <<>> ELSE Head(ss) \o Concat(Tail(ss))

\* json.dumps, one character of a str (ensure_ascii escapes)
JsonEscape(c) ==
    CASE c = Quote -> <<Backslash, Quote>>
      [] c = Backslash -> <<Backslash, Backslash>>
      [] c = Newline -> <<Backslash, "n">>
      [] OTHER -> <<c>>

\* json.dumps of a str
JsonDumpsStr(s) ==
    <<Quote>> \o Concat([i \in DOMAIN s |-> JsonEscape(s[i])]) \o <<Quote>>

\* json.dumps of a list of str: items joined by ", "
JsonDumpsList(l) ==
    <<"[">>
    \o Concat([i \in DOMAIN l |->
                  (IF i = 1 THEN <<>> ELSE <<",", " ">>) \o JsonDumpsStr(l[i])])
    \o <<"]">>

Scanned(ok, value, rest) == [ok |-> ok, value |-> value, rest |-> rest]

\* json.loads, the body of a string after its opening quote
RECURSIVE JsonScanString(_, _)
JsonScanString(rest, acc) ==
    IF rest = <<>> THEN Scanned(FALSE, <<>>, <<>>)
    ELSE IF Head(rest) = Quote THEN Scanned(TRUE, acc, Tail(rest))
    ELSE IF Head(rest) = Newline THEN Scanned(FALSE, <<>>, <<>>)
    ELSE IF Head(rest) = Backslash THEN
        IF Len(rest) < 2 THEN Scanned(FALSE, <<>>, <<>>)
        ELSE IF rest[2] = Quote THEN JsonScanString(Tail(Tail(rest)), Append(acc, Quote))
        ELSE IF rest[2] = Backslash THEN JsonScanString(Tail(Tail(rest)), Append(acc, Backslash))
        ELSE IF rest[2] = "n" THEN JsonScanString(Tail(Tail(rest)), Append(acc, Newline))
        ELSE Scanned(FALSE, <<>>, <<>>)
    ELSE JsonScanString(Tail(rest), Append(acc, Head(rest)))

RECURSIVE SkipSpaces(_)
SkipSpaces(rest) ==
    IF rest # <<>> /\ Head(rest) \in {" ", Newline} THEN SkipSpaces(Tail(rest)) ELSE rest

\* json.loads, the items of an array after its opening bracket
RECURSIVE JsonScanItems(_, _)
JsonScanItems(rest, acc) ==
    LET r == SkipSpaces(rest) IN
    IF r = <<>> \/ Head(r) # Quote THEN Scanned(FALSE, <<>>, <<>>)
    ELSE LET item == JsonScanString(Tail(r), <<>>)
             after == SkipSpaces(item.rest)
         IN  IF ~item.ok \/ after = <<>> THEN Scanned(FALSE, <<>>, <<>>)
             ELSE IF Head(after) = "]"
                  THEN Scanned(TRUE, Append(acc, item.value), Tail(after))
             ELSE IF Head(after) = ","
                  THEN JsonScanItems(Tail(after), Append(acc, item.value))
             ELSE Scanned(FALSE, <<>>, <<>>)

Loaded(ok, value) == [ok |-> ok, value |-> value]
LoadError == Loaded(FALSE, <<>>)

\* json.loads of a text: a string or an array of strings, nothing after it
JsonLoads(text) ==
    LET t == SkipSpaces(text) IN
    IF t = <<>> THEN LoadError
    ELSE LET v == IF Head(t) = Quote THEN JsonScanString(Tail(t), <<>>)
                  ELSE IF Head(t) = "["
                  THEN IF SkipSpaces(Tail(t)) # <<>> /\ Head(SkipSpaces(Tail(t))) = "]"
                       THEN Scanned(TRUE, <<>>, Tail(SkipSpaces(Tail(t))))
                       ELSE JsonScanItems(Tail(t), <<>>)
                  ELSE Scanned(FALSE, <<>>, <<>>)
         IN  IF v.ok /\ SkipSpaces(v.rest) = <<>> THEN Loaded(TRUE, v.value)
             ELSE LoadError

\* The Python tokenizer inside the sandbox, the body of a "..." literal
\* after its opening quote: escapes are decoded, a raw line end is an error.
RECURSIVE PyScanString(_, _)
PyScanString(rest, acc) ==
    IF rest = <<>> THEN Scanned(FALSE, <<>>, <<>>)
    ELSE IF Head(rest) = Quote THEN Scanned(TRUE, acc, Tail(rest))
    ELSE IF Head(rest) = Newline THEN Scanned(FALSE, <<>>, <<>>)
    ELSE IF Head(rest) = Backslash THEN
        IF Len(rest) < 2 THEN Scanned(FALSE, <<>>, <<>>)
        ELSE IF rest[2] = Quote THEN PyScanString(Tail(Tail(rest)), Append(acc, Quote))
        ELSE IF rest[2] = Backslash THEN PyScanString(Tail(Tail(rest)), Append(acc, Backslash))
        ELSE IF rest[2] = "n" THEN PyScanString(Tail(Tail(rest)), Append(acc, Newline))
        ELSE IF rest[2] = "a" THEN PyScanString(Tail(Tail(rest)), Append(acc, Bell))
        ELSE IF rest[2] = Newline THEN PyScanString(Tail(Tail(rest)), acc)
        ELSE PyScanString(Tail(Tail(rest)), acc \o <<Backslash, rest[2]>>)
    ELSE PyScanString(Tail(rest), Append(acc, Head(rest)))

Token(kind, text, val) == [kind |-> kind, text |-> text, val |-> val]

\* The program text as tokens: each string literal is one "str" token with
\* its value, any other element stands for itself, and "err" ends the
\* token stream at a literal that is not closed on its line.
RECURSIVE Tokenize(_)
Tokenize(src) ==
    IF src = <<>> THEN <<>>
    ELSE IF Head(src) = Quote
    THEN LET lit == PyScanString(Tail(src), <<>>)
         IN  IF lit.ok THEN <<Token("str", "STR", lit.value)>> \o Tokenize(lit.rest)
             ELSE <<Token("err", "ERR", <<>>)>>
    ELSE <<Token("frag", Head(src), <<>>)>> \o Tokenize(Tail(src))

\* The structure of a program: its tokens with the literals' values left out
Skeleton(src) ==
    LET toks == Tokenize(src) IN [i \in DOMAIN toks |-> toks[i].text]

Request(p, tools, m) == [prompt |-> p, allowed_tools |-> tools, model |-> m]

DefaultTools == <<<<"Read">>, <<"Write">>, <<"Edit">>, <<"Glob">>, <<"Grep">>, <<"Bash">>>>
DefaultModel == <<"claude-sonnet-4-5">>
DefaultRequest == Request(<<"a">>, DefaultTools, DefaultModel)

\* as if the prompt were encoded once only
LibAgentCodeSingleDumps(req) ==
    <<"... prompt = json.loads(">>
    \o JsonDumpsStr(req.prompt)
    \o <<") ... asyncio.run(main())">>

\* agent_code of run_agent.py
LibAgentCode(req) ==
    <<"... prompt = json.loads(">>
    \o JsonDumpsStr(JsonDumpsStr(req.prompt))
    \o <<") ... asyncio.run(main())">>

\* agent_code of api_server.py
ApiAgentCode(req) ==
    <<"... prompt = json.loads(">>
    \o JsonDumpsStr(JsonDumpsStr(req.prompt))
    \o <<") allowed_tools = json.loads(">>
    \o JsonDumpsStr(JsonDumpsList(req.allowed_tools))
    \o <<") ... options=ClaudeAgentOptions(model=">>
    \o <<Quote>> \o req.model \o <<Quote>>
    \o <<", allowed_tools=allowed_tools, max_turns=20) ... asyncio.run(main())">>

PromptChars == {"a", "n", Quote, Backslash, Newline}
ToolChars == {"a", Quote, ","}
ModelChars == {"a", Quote, Backslash}

Prompts == SeqsUpTo(PromptChars, MaxPrompt)
ToolLists == SeqsUpTo(SeqsUpTo(ToolChars, MaxToolName), MaxTools)
Models == SeqsUpTo(ModelChars, MaxModel)

\* Requests that differ from the default one in one caller-supplied value
Requests ==
    {Request(p, DefaultTools, DefaultModel) : p \in Prompts}
    \cup {Request(DefaultRequest.prompt, t, DefaultModel) : t \in ToolLists}
    \cup {Request(DefaultRequest.prompt, DefaultTools, m) : m \in Models}

NoReceived ==
    [structure |-> <<>>, prompt |-> LoadError, allowed_tools |-> LoadError,
     model |-> LoadError]

\* The value of the i-th token when it is a string literal
LiteralAt(toks, i) ==
    IF i <= Len(toks) /\ toks[i].kind = "str" THEN Loaded(TRUE, toks[i].val)
    ELSE LoadError

\* json.loads applied to the i-th token
LoadsAt(toks, i) ==
    IF LiteralAt(toks, i).ok THEN JsonLoads(LiteralAt(toks, i).value) ELSE LoadError

----------------------------------------------------------------------------
\* The call log

Ev(op, ev, t) == [op |-> op, ev |-> ev, timeout |-> t]

Issue(op, t) == calls' = Append(calls, Ev(op, "call", t))
Return(op, ev) == calls' = Append(calls, Ev(op, ev, 0))

NCalls(op) ==
    Cardinality({i \in DOMAIN calls : calls[i].op = op /\ calls[i].ev = "call"})

NReturns(op, ev) ==
    Cardinality({i \in DOMAIN calls : calls[i].op = op /\ calls[i].ev = ev})

----------------------------------------------------------------------------
RInit ==
    /\ runner \in AllRunners
    /\ cfg \in Configs
    /\ timeout \in (IF runner = "sync" THEN {SyncCreateTimeout}
                    ELSE IF runner = "validate" THEN {ValCreateTimeout}
                    ELSE 1..MaxTimeout)
    /\ pc = "start"
    /\ calls = <<>>
    /\ sandbox = FALSE
    /\ pending = NoVal
    /\ outcome = NoVal
    /\ result = NoResult
    /\ hangs = FALSE
    /\ elapsed = 0

CIdle ==
    /\ gen = "lib"
    /\ request = DefaultRequest
    /\ agent_code = <<>>
    /\ received = NoReceived
    /\ cpc = "idle"

Idle == [pc |-> "idle"]

XIdle ==
    /\ conc = Idle
    /\ pair = Idle
    /\ org = Idle
    /\ prog = Idle
    /\ cli = Idle

Init == RInit /\ CIdle /\ XIdle

\* The timeout that the pending commands.run call was issued with
RunTimeout == calls[Len(calls)].timeout

\* What the provider may answer.  A sandbox is only handed out to an
\* authenticated client (E2B_API_KEY set).
CreateAnswers == IF cfg.E2B_API_KEY THEN {"ok", "fail"} ELSE {"fail"}
WriteAnswers == {"ok", "fail"}
KillAnswers == {"ok", "fail"}

\* try/finally: an exception raised by the finally block replaces whatever
\* the try block was about to deliver.
Finally(pend, killAnswer) ==
    IF killAnswer = "ok" THEN pend
    ELSE Raise("KillError", ProviderError("kill"))

\* Seconds pass while commands.run is awaited.
Tick ==
    /\ pc = "run_wait"
    /\ elapsed < RunTimeout
    /\ elapsed' = elapsed + 1
    /\ UNCHANGED <<xvars, cvars, runner, cfg, timeout, pc, calls, sandbox, pending, outcome,
                   result, hangs>>

----------------------------------------------------------------------------
\* run_agent of run_agent.py

LibValidate ==
    /\ runner = "lib" /\ pc = "start"
    /\ IF ~cfg.E2B_TEMPLATE_ID
       THEN /\ outcome' = Raise("ValueError", <<"E2B_TEMPLATE_ID not set. Run: ./setup.sh">>)
            /\ pc' = "done"
       ELSE IF ~cfg.CLAUDE_CODE_OAUTH_TOKEN
       THEN /\ outcome' = Raise("ValueError", <<"CLAUDE_CODE_OAUTH_TOKEN not set. Run: ./setup.sh">>)
            /\ pc' = "done"
       ELSE /\ outcome' = outcome
            /\ pc' = "create"
    /\ UNCHANGED <<xvars, cvars, runner, cfg, timeout, calls, sandbox, pending, result, hangs, elapsed>>

LibCreate ==
    /\ runner = "lib" /\ pc = "create"
    /\ Issue("create", timeout)
    /\ pc' = "create_wait"
    /\ UNCHANGED <<xvars, cvars, runner, cfg, timeout, sandbox, pending, outcome, result, hangs, elapsed>>

\* as if a failed create were tried once more
LibCreateReturnsRetry ==
    /\ runner = "lib" /\ pc = "create_wait"
    /\ \E a \in CreateAnswers :
        /\ Return("create", a)
        /\ IF a = "ok"
           THEN /\ sandbox' = TRUE
                /\ pc' = "write"
                /\ outcome' = outcome
           ELSE IF NCalls("create") < 2
           THEN /\ sandbox' = sandbox
                /\ pc' = "create"
                /\ outcome' = outcome
           ELSE /\ sandbox' = sandbox
                /\ pc' = "done"
                /\ outcome' = Raise("CreateError", ProviderError("create"))
    /\ UNCHANGED <<xvars, cvars, runner, cfg, timeout, pending, result, hangs, elapsed>>

\* create is outside the try block: its exception goes straight to the caller
LibCreateReturns ==
    /\ runner = "lib" /\ pc = "create_wait"
    /\ \E a \in CreateAnswers :
        /\ Return("create", a)
        /\ IF a = "ok"
           THEN /\ sandbox' = TRUE
                /\ pc' = "write"
                /\ outcome' = outcome
           ELSE /\ sandbox' = sandbox
                /\ pc' = "done"
                /\ outcome' = Raise("CreateError", ProviderError("create"))
    /\ UNCHANGED <<xvars, cvars, runner, cfg, timeout, pending, result, hangs, elapsed>>

LibWrite ==
    /\ runner = "lib" /\ pc = "write"
    /\ Issue("write", 0)
    /\ pc' = "write_wait"
    /\ UNCHANGED <<xvars, cvars, runner, cfg, timeout, sandbox, pending, outcome, result, hangs, elapsed>>

\* as if files.write stood outside the try block
LibWriteReturnsNoFinally ==
    /\ runner = "lib" /\ pc = "write_wait"
    /\ \E a \in WriteAnswers :
        /\ Return("write", a)
        /\ IF a = "ok"
           THEN /\ pc' = "run"
                /\ outcome' = outcome
           ELSE /\ pc' = "done"
                /\ outcome' = Raise("WriteError", ProviderError("write"))
    /\ UNCHANGED <<xvars, cvars, runner, cfg, timeout, sandbox, pending, result, hangs, elapsed>>

\* as if a failed files.write were swallowed
LibWriteReturnsSwallowed ==
    /\ runner = "lib" /\ pc = "write_wait"
    /\ \E a \in WriteAnswers : Return("write", a)
    /\ pc' = "run"
    /\ UNCHANGED <<xvars, cvars, runner, cfg, timeout, sandbox, pending, outcome, result, hangs, elapsed>>

LibWriteReturns ==
    /\ runner = "lib" /\ pc = "write_wait"
    /\ \E a \in WriteAnswers :
        /\ Return("write", a)
        /\ IF a = "ok"
           THEN /\ pc' = "run"
                /\ pending' = pending
           ELSE /\ pc' = "finally"
                /\ pending' = Raise("WriteError", ProviderError("write"))
    /\ UNCHANGED <<xvars, cvars, runner, cfg, timeout, sandbox, outcome, result, hangs, elapsed>>

LibRun ==
    /\ runner = "lib" /\ pc = "run"
    /\ Issue("run", timeout)
    /\ pc' = "run_wait"
    /\ hangs' \in BOOLEAN
    /\ elapsed' = 0
    /\ UNCHANGED <<xvars, cvars, runner, cfg, timeout, sandbox, pending, outcome, result>>

\* commands.run returns a CommandResult
LibRunReturns ==
    /\ runner = "lib" /\ pc = "run_wait" /\ ~hangs
    /\ \E r \in CommandResults : result' = r
    /\ Return("run", "ok")
    /\ pc' = "check"
    /\ UNCHANGED <<xvars, cvars, runner, cfg, timeout, sandbox, pending, outcome, hangs, elapsed>>

\* commands.run raises: the connection to the sandbox fails
LibRunFails ==
    /\ runner = "lib" /\ pc = "run_wait" /\ ~hangs
    /\ Return("run", "fail")
    /\ pending' = Raise("RunError", ProviderError("run"))
    /\ pc' = "finally"
    /\ UNCHANGED <<xvars, cvars, runner, cfg, timeout, sandbox, outcome, result, hangs, elapsed>>

\* as if commands.run stood outside the try block
LibRunTimesOutNoFinally ==
    /\ runner = "lib" /\ pc = "run_wait" /\ elapsed = RunTimeout
    /\ Return("run", "timeout")
    /\ outcome' = Raise("TimeoutException", ProviderError("run"))
    /\ pc' = "done"
    /\ UNCHANGED <<xvars, cvars, runner, cfg, timeout, sandbox, pending, result, hangs, elapsed>>

\* commands.run raises: the timeout it was given has elapsed
LibRunTimesOut ==
    /\ runner = "lib" /\ pc = "run_wait" /\ elapsed = RunTimeout
    /\ Return("run", "timeout")
    /\ pending' = Raise("TimeoutException", ProviderError("run"))
    /\ pc' = "finally"
    /\ UNCHANGED <<xvars, cvars, runner, cfg, timeout, sandbox, outcome, result, hangs, elapsed>>

LibCheck ==
    /\ runner = "lib" /\ pc = "check"
    /\ pending' = IF result.exit_code # 0
                  THEN Raise("RuntimeError", <<"Agent failed: ">> \o result.stderr)
                  ELSE Val("return", "str", Strip(result.stdout), FALSE)
    /\ pc' = "finally"
    /\ UNCHANGED <<xvars, cvars, runner, cfg, timeout, calls, sandbox, outcome, result, hangs, elapsed>>

LibKill ==
    /\ runner = "lib" /\ pc = "finally"
    /\ Issue("kill", 0)
    /\ pc' = "kill_wait"
    /\ UNCHANGED <<xvars, cvars, runner, cfg, timeout, sandbox, pending, outcome, result, hangs, elapsed>>

LibKillReturns ==
    /\ runner = "lib" /\ pc = "kill_wait"
    /\ \E a \in KillAnswers :
        /\ Return("kill", a)
        /\ outcome' = Finally(pending, a)
    /\ pc' = "done"
    /\ UNCHANGED <<xvars, cvars, runner, cfg, timeout, sandbox, pending, result, hangs, elapsed>>

LibNext ==
    \/ LibValidate \/ LibCreate \/ LibCreateReturns \/ LibWrite
    \/ LibWriteReturns \/ LibRun \/ LibRunReturns \/ LibRunFails
    \/ LibRunTimesOut \/ LibCheck \/ LibKill \/ LibKillReturns

----------------------------------------------------------------------------
\* The /agent/run handler of examples/api_server.py

AgentResponse(success, text, sid) ==
    Val("return", IF success THEN "success" ELSE "failure", text, sid)

ApiValidate ==
    /\ runner = "api" /\ pc = "start"
    /\ IF ~(cfg.E2B_TEMPLATE_ID /\ cfg.CLAUDE_CODE_OAUTH_TOKEN /\ cfg.E2B_API_KEY)
       THEN /\ outcome' = Raise("HTTPException", <<"Server not configured. Run onboarding.py">>)
            /\ pc' = "done"
       ELSE /\ outcome' = outcome
            /\ pc' = "create"
    /\ UNCHANGED <<xvars, cvars, runner, cfg, timeout, calls, sandbox, pending, result, hangs, elapsed>>

ApiCreate ==
    /\ runner = "api" /\ pc = "create"
    /\ Issue("create", timeout)
    /\ pc' = "create_wait"
    /\ UNCHANGED <<xvars, cvars, runner, cfg, timeout, sandbox, pending, outcome, result, hangs, elapsed>>

\* create is inside the try block: `except Exception` turns its failure
\* into a response, built while sandbox is still None
ApiCreateReturns ==
    /\ runner = "api" /\ pc = "create_wait"
    /\ \E a \in CreateAnswers :
        /\ Return("create", a)
        /\ IF a = "ok"
           THEN /\ sandbox' = TRUE
                /\ pc' = "write"
                /\ pending' = pending
           ELSE /\ sandbox' = sandbox
                /\ pc' = "finally"
                /\ pending' = AgentResponse(FALSE, ProviderError("create"), sandbox)
    /\ UNCHANGED <<xvars, cvars, runner, cfg, timeout, outcome, result, hangs, elapsed>>

ApiWrite ==
    /\ runner = "api" /\ pc = "write"
    /\ Issue("write", 0)
    /\ pc' = "write_wait"
    /\ UNCHANGED <<xvars, cvars, runner, cfg, timeout, sandbox, pending, outcome, result, hangs, elapsed>>

ApiWriteReturns ==
    /\ runner = "api" /\ pc = "write_wait"
    /\ \E a \in WriteAnswers :
        /\ Return("write", a)
        /\ IF a = "ok"
           THEN /\ pc' = "run"
                /\ pending' = pending
           ELSE /\ pc' = "finally"
                /\ pending' = AgentResponse(FALSE, ProviderError("write"), sandbox)
    /\ UNCHANGED <<xvars, cvars, runner, cfg, timeout, sandbox, outcome, result, hangs, elapsed>>

ApiRun ==
    /\ runner = "api" /\ pc = "run"
    /\ Issue("run", timeout)
    /\ pc' = "run_wait"
    /\ hangs' \in BOOLEAN
    /\ elapsed' = 0
    /\ UNCHANGED <<xvars, cvars, runner, cfg, timeout, sandbox, pending, outcome, result>>

ApiRunReturns ==
    /\ runner = "api" /\ pc = "run_wait" /\ ~hangs
    /\ \E r \in CommandResults : result' = r
    /\ Return("run", "ok")
    /\ pc' = "check"
    /\ UNCHANGED <<xvars, cvars, runner, cfg, timeout, sandbox, pending, outcome, hangs, elapsed>>

ApiRunFails ==
    /\ runner = "api" /\ pc = "run_wait" /\ ~hangs
    /\ Return("run", "fail")
    /\ pending' = AgentResponse(FALSE, ProviderError("run"), sandbox)
    /\ pc' = "finally"
    /\ UNCHANGED <<xvars, cvars, runner, cfg, timeout, sandbox, outcome, result, hangs, elapsed>>

ApiRunTimesOut ==
    /\ runner = "api" /\ pc = "run_wait" /\ elapsed = RunTimeout
    /\ Return("run", "timeout")
    /\ pending' = AgentResponse(FALSE, ProviderError("run"), sandbox)
    /\ pc' = "finally"
    /\ UNCHANGED <<xvars, cvars, runner, cfg, timeout, sandbox, outcome, result, hangs, elapsed>>

\* `result.stderr or "Agent failed"`: an empty stderr is falsy
ApiCheck ==
    /\ runner = "api" /\ pc = "check"
    /\ pending' = IF result.exit_code # 0
                  THEN AgentResponse(FALSE,
                           IF result.stderr # <<>> THEN result.stderr
                           ELSE <<"Agent failed">>,
                           sandbox)
                  ELSE AgentResponse(TRUE, Strip(result.stdout), sandbox)
    /\ pc' = "finally"
    /\ UNCHANGED <<xvars, cvars, runner, cfg, timeout, calls, sandbox, outcome, result, hangs, elapsed>>

\* as if the finally block lacked its `if sandbox` test
ApiKillUnguarded ==
    /\ runner = "api" /\ pc = "finally"
    /\ Issue("kill", 0)
    /\ pc' = "kill_wait"
    /\ UNCHANGED <<xvars, cvars, runner, cfg, timeout, sandbox, pending, outcome, result, hangs, elapsed>>

\* finally: `if sandbox: await sandbox.kill()`
ApiKill ==
    /\ runner = "api" /\ pc = "finally"
    /\ IF sandbox
       THEN /\ Issue("kill", 0)
            /\ pc' = "kill_wait"
            /\ outcome' = outcome
       ELSE /\ calls' = calls
            /\ pc' = "done"
            /\ outcome' = pending
    /\ UNCHANGED <<xvars, cvars, runner, cfg, timeout, sandbox, pending, result, hangs, elapsed>>

ApiKillReturns ==
    /\ runner = "api" /\ pc = "kill_wait"
    /\ \E a \in KillAnswers :
        /\ Return("kill", a)
        /\ outcome' = Finally(pending, a)
    /\ pc' = "done"
    /\ UNCHANGED <<xvars, cvars, runner, cfg, timeout, sandbox, pending, result, hangs, elapsed>>

ApiNext ==
    \/ ApiValidate \/ ApiCreate \/ ApiCreateReturns \/ ApiWrite
    \/ ApiWriteReturns \/ ApiRun \/ ApiRunReturns \/ ApiRunFails
    \/ ApiRunTimesOut \/ ApiCheck \/ ApiKill \/ ApiKillReturns

----------------------------------------------------------------------------
\* run_agent_in_sandbox of examples/basic_sync.py: no configuration check,
\* fixed timeouts, the CommandResult is printed and nothing is returned.

SyncCreate ==
    /\ runner = "sync" /\ pc = "start"
    /\ Issue("create", SyncCreateTimeout)
    /\ pc' = "create_wait"
    /\ UNCHANGED <<xvars, cvars, runner, cfg, timeout, sandbox, pending, outcome, result, hangs, elapsed>>

SyncCreateReturns ==
    /\ runner = "sync" /\ pc = "create_wait"
    /\ \E a \in CreateAnswers :
        /\ Return("create", a)
        /\ IF a = "ok"
           THEN /\ sandbox' = TRUE
                /\ pc' = "write"
                /\ outcome' = outcome
           ELSE /\ sandbox' = sandbox
                /\ pc' = "done"
                /\ outcome' = Raise("CreateError", ProviderError("create"))
    /\ UNCHANGED <<xvars, cvars, runner, cfg, timeout, pending, result, hangs, elapsed>>

SyncWrite ==
    /\ runner = "sync" /\ pc = "write"
    /\ Issue("write", 0)
    /\ pc' = "write_wait"
    /\ UNCHANGED <<xvars, cvars, runner, cfg, timeout, sandbox, pending, outcome, result, hangs, elapsed>>

SyncWriteReturns ==
    /\ runner = "sync" /\ pc = "write_wait"
    /\ \E a \in WriteAnswers :
        /\ Return("write", a)
        /\ IF a = "ok"
           THEN /\ pc' = "run"
                /\ pending' = pending
           ELSE /\ pc' = "finally"
                /\ pending' = Raise("WriteError", ProviderError("write"))
    /\ UNCHANGED <<xvars, cvars, runner, cfg, timeout, sandbox, outcome, result, hangs, elapsed>>

SyncRun ==
    /\ runner = "sync" /\ pc = "run"
    /\ Issue("run", SyncRunTimeout)
    /\ pc' = "run_wait"
    /\ hangs' \in BOOLEAN
    /\ elapsed' = 0
    /\ UNCHANGED <<xvars, cvars, runner, cfg, timeout, sandbox, pending, outcome, result>>

\* the result is printed; the function falls off its end and returns None
SyncRunReturns ==
    /\ runner = "sync" /\ pc = "run_wait" /\ ~hangs
    /\ \E r \in CommandResults : result' = r
    /\ Return("run", "ok")
    /\ pending' = Val("return", "None", <<>>, FALSE)
    /\ pc' = "finally"
    /\ UNCHANGED <<xvars, cvars, runner, cfg, timeout, sandbox, outcome, hangs, elapsed>>

SyncRunFails ==
    /\ runner = "sync" /\ pc = "run_wait" /\ ~hangs
    /\ Return("run", "fail")
    /\ pending' = Raise("RunError", ProviderError("run"))
    /\ pc' = "finally"
    /\ UNCHANGED <<xvars, cvars, runner, cfg, timeout, sandbox, outcome, result, hangs, elapsed>>

SyncRunTimesOut ==
    /\ runner = "sync" /\ pc = "run_wait" /\ elapsed = RunTimeout
    /\ Return("run", "timeout")
    /\ pending' = Raise("TimeoutException", ProviderError("run"))
    /\ pc' = "finally"
    /\ UNCHANGED <<xvars, cvars, runner, cfg, timeout, sandbox, outcome, result, hangs, elapsed>>

SyncKill ==
    /\ runner = "sync" /\ pc = "finally"
    /\ Issue("kill", 0)
    /\ pc' = "kill_wait"
    /\ UNCHANGED <<xvars, cvars, runner, cfg, timeout, sandbox, pending, outcome, result, hangs, elapsed>>

SyncKillReturns ==
    /\ runner = "sync" /\ pc = "kill_wait"
    /\ \E a \in KillAnswers :
        /\ Return("kill", a)
        /\ outcome' = Finally(pending, a)
    /\ pc' = "done"
    /\ UNCHANGED <<xvars, cvars, runner, cfg, timeout, sandbox, pending, result, hangs, elapsed>>

SyncNext ==
    \/ SyncCreate \/ SyncCreateReturns \/ SyncWrite \/ SyncWriteReturns
    \/ SyncRun \/ SyncRunReturns \/ SyncRunFails \/ SyncRunTimesOut
    \/ SyncKill \/ SyncKillReturns

----------------------------------------------------------------------------
\* main and validate_sandbox of scripts/validate_setup.py.  outcome is what
\* validate_sandbox delivers, or SystemExit when main stops before calling it.

\* check k of validate_sandbox: 1 claude, 2 ripgrep, 3 claude_agent_sdk, 4 echo
RunPc(k) == "run" \o ToString(k)
WaitPc(k) == "wait" \o ToString(k)
CheckPc(k) == "check" \o ToString(k)

\* a failing ripgrep check is only a warning
Required(k) == k # 2

ReturnBool(b) == Val("return", "bool", <<IF b THEN "True" ELSE "False">>, FALSE)

\* main: `if not check_environment(): sys.exit(1)`
ValCheckEnvironment ==
    /\ runner = "validate" /\ pc = "start"
    /\ IF ~(cfg.E2B_API_KEY /\ cfg.E2B_TEMPLATE_ID /\ cfg.CLAUDE_CODE_OAUTH_TOKEN)
       THEN /\ outcome' = Raise("SystemExit", <<"1">>)
            /\ pc' = "done"
       ELSE /\ outcome' = outcome
            /\ pc' = "validate_sandbox"
    /\ UNCHANGED <<xvars, cvars, runner, cfg, timeout, calls, sandbox, pending, result, hangs, elapsed>>

ValTemplate ==
    /\ runner = "validate" /\ pc = "validate_sandbox"
    /\ IF ~cfg.E2B_TEMPLATE_ID
       THEN /\ outcome' = ReturnBool(FALSE)
            /\ pc' = "done"
            /\ calls' = calls
       ELSE /\ outcome' = outcome
            /\ pc' = "create_wait"
            /\ Issue("create", ValCreateTimeout)
    /\ UNCHANGED <<xvars, cvars, runner, cfg, timeout, sandbox, pending, result, hangs, elapsed>>

\* as if Sandbox.create stood inside the try block that ends in finally
ValCreateReturnsInTry ==
    /\ runner = "validate" /\ pc = "create_wait"
    /\ \E a \in CreateAnswers :
        /\ Return("create", a)
        /\ IF a = "ok"
           THEN /\ sandbox' = TRUE
                /\ pc' = RunPc(1)
                /\ pending' = pending
           ELSE /\ sandbox' = sandbox
                /\ pc' = "finally"
                /\ pending' = ReturnBool(FALSE)
    /\ UNCHANGED <<xvars, cvars, runner, cfg, timeout, outcome, result, hangs, elapsed>>

\* Sandbox.create has a try/except of its own: a failure returns False
ValCreateReturns ==
    /\ runner = "validate" /\ pc = "create_wait"
    /\ \E a \in CreateAnswers :
        /\ Return("create", a)
        /\ IF a = "ok"
           THEN /\ sandbox' = TRUE
                /\ pc' = RunPc(1)
                /\ outcome' = outcome
           ELSE /\ sandbox' = sandbox
                /\ pc' = "done"
                /\ outcome' = ReturnBool(FALSE)
    /\ UNCHANGED <<xvars, cvars, runner, cfg, timeout, pending, result, hangs, elapsed>>

\* sandbox.commands.run(...) of check k, no timeout given
ValRun(k) ==
    /\ runner = "validate" /\ pc = RunPc(k)
    /\ Issue("run", 0)
    /\ pc' = WaitPc(k)
    /\ UNCHANGED <<xvars, cvars, runner, cfg, timeout, sandbox, pending, outcome, result, hangs, elapsed>>

ValRunReturns(k) ==
    /\ runner = "validate" /\ pc = WaitPc(k)
    /\ \E r \in CommandResults : result' = r
    /\ Return("run", "ok")
    /\ pc' = CheckPc(k)
    /\ UNCHANGED <<xvars, cvars, runner, cfg, timeout, sandbox, pending, outcome, hangs, elapsed>>

\* commands.run raises (connection lost, timeout)
ValRunFails(k) ==
    /\ runner = "validate" /\ pc = WaitPc(k)
    /\ \E a \in {"fail", "timeout"} : Return("run", a)
    /\ pending' = Raise("RunError", ProviderError("run"))
    /\ pc' = "finally"
    /\ UNCHANGED <<xvars, cvars, runner, cfg, timeout, sandbox, outcome, result, hangs, elapsed>>

\* as if `return False` left the function without running the finally block
ValCheckNoFinally(k) ==
    /\ runner = "validate" /\ pc = CheckPc(k)
    /\ IF result.exit_code # 0 /\ Required(k)
       THEN /\ outcome' = ReturnBool(FALSE)
            /\ pending' = pending
            /\ pc' = "done"
       ELSE /\ outcome' = outcome
            /\ pending' = IF k = NChecks THEN ReturnBool(TRUE) ELSE pending
            /\ pc' = IF k = NChecks THEN "finally" ELSE RunPc(k + 1)
    /\ UNCHANGED <<xvars, cvars, runner, cfg, timeout, calls, sandbox, result, hangs, elapsed>>

\* `if result.exit_code == 0: ... else: return False` (no return for ripgrep)
ValCheck(k) ==
    /\ runner = "validate" /\ pc = CheckPc(k)
    /\ IF result.exit_code # 0 /\ Required(k)
       THEN /\ pending' = ReturnBool(FALSE)
            /\ pc' = "finally"
       ELSE /\ pending' = IF k = NChecks THEN ReturnBool(TRUE) ELSE pending
            /\ pc' = IF k = NChecks THEN "finally" ELSE RunPc(k + 1)
    /\ UNCHANGED <<xvars, cvars, runner, cfg, timeout, calls, sandbox, outcome, result, hangs, elapsed>>

ValKill ==
    /\ runner = "validate" /\ pc = "finally"
    /\ Issue("kill", 0)
    /\ pc' = "kill_wait"
    /\ UNCHANGED <<xvars, cvars, runner, cfg, timeout, sandbox, pending, outcome, result, hangs, elapsed>>

ValKillReturns ==
    /\ runner = "validate" /\ pc = "kill_wait"
    /\ \E a \in KillAnswers :
        /\ Return("kill", a)
        /\ outcome' = Finally(pending, a)
    /\ pc' = "done"
    /\ UNCHANGED <<xvars, cvars, runner, cfg, timeout, sandbox, pending, result, hangs, elapsed>>

ValNext ==
    \/ ValCheckEnvironment \/ ValTemplate \/ ValCreateReturns
    \/ \E k \in 1..NChecks : ValRun(k)
    \/ \E k \in 1..NChecks : ValRunReturns(k)
    \/ \E k \in 1..NChecks : ValRunFails(k)
    \/ \E k \in 1..NChecks : ValCheck(k)
    \/ ValKill \/ ValKillReturns

----------------------------------------------------------------------------
RNext == Tick \/ LibNext \/ ApiNext \/ SyncNext \/ ValNext

vars == <<rvars, cvars, xvars>>

Spec == Init /\ [][RNext]_vars

\* Every awaited provider call returns, fails or times out, and the
\* interpreter runs the next statement.
FairSpec == Spec /\ WF_vars(RNext)

\* run_agent of run_agent.py on its own
LibInit == Init /\ runner = "lib"
LibStep == Tick \/ LibNext
LibFairSpec == LibInit /\ [][LibStep]_vars /\ WF_vars(LibStep)

----------------------------------------------------------------------------
\* Generating the program and running it in the sandbox

RIdle ==
    /\ runner = "lib"
    /\ cfg = [E2B_TEMPLATE_ID |-> TRUE, CLAUDE_CODE_OAUTH_TOKEN |-> TRUE,
              E2B_API_KEY |-> TRUE]
    /\ timeout = 1
    /\ pc = "idle"
    /\ calls = <<>>
    /\ sandbox = FALSE
    /\ pending = NoVal
    /\ outcome = NoVal
    /\ result = NoResult
    /\ hangs = FALSE
    /\ elapsed = 0

CInit ==
    /\ RIdle
    /\ XIdle
    /\ gen \in {"lib", "api"}
    /\ request \in (IF gen = "lib"
                    THEN {Request(p, DefaultTools, DefaultModel) : p \in Prompts}
                    ELSE Requests)
    /\ agent_code = <<>>
    /\ received = NoReceived
    /\ cpc = "input"

LibRender ==
    /\ cpc = "input" /\ gen = "lib"
    /\ agent_code' = LibAgentCode(request)
    /\ cpc' = "rendered"
    /\ UNCHANGED <<xvars, rvars, gen, request, received>>

ApiRender ==
    /\ cpc = "input" /\ gen = "api"
    /\ agent_code' = ApiAgentCode(request)
    /\ cpc' = "rendered"
    /\ UNCHANGED <<xvars, rvars, gen, request, received>>

\* The sandbox runs the program: the prompt is json.loads of the first
\* literal, allowed_tools json.loads of the second, the model the third.
LibInterpret ==
    /\ cpc = "rendered" /\ gen = "lib"
    /\ LET toks == Tokenize(agent_code) IN
        received' = [structure |-> Skeleton(agent_code),
                     prompt |-> LoadsAt(toks, 2),
                     allowed_tools |-> LoadError,
                     model |-> LoadError]
    /\ cpc' = "executed"
    /\ UNCHANGED <<xvars, rvars, gen, request, agent_code>>

ApiInterpret ==
    /\ cpc = "rendered" /\ gen = "api"
    /\ LET toks == Tokenize(agent_code) IN
        received' = [structure |-> Skeleton(agent_code),
                     prompt |-> LoadsAt(toks, 2),
                     allowed_tools |-> LoadsAt(toks, 4),
                     model |-> LiteralAt(toks, 6)]
    /\ cpc' = "executed"
    /\ UNCHANGED <<xvars, rvars, gen, request, agent_code>>

CNext == LibRender \/ ApiRender \/ LibInterpret \/ ApiInterpret

CodecSpec == CInit /\ [][CNext]_vars

----------------------------------------------------------------------------
\* Properties

Guarded == runner \in {"lib", "api"}
AllConfigured ==
    cfg.E2B_TEMPLATE_ID /\ cfg.CLAUDE_CODE_OAUTH_TOKEN /\ cfg.E2B_API_KEY

\* C1: in run_agent and in the /agent/run handler, a run whose create
\* succeeded has made exactly one create call and, on every exit path,
\* exactly one kill call; no run makes more than one of either.
C1_OneSandboxReleasedOnce ==
    Guarded =>
        /\ NCalls("create") <= 1
        /\ NCalls("kill") <= 1
        /\ (pc = "done" /\ NReturns("create", "ok") = 1) =>
               (NCalls("create") = 1 /\ NCalls("kill") = 1)

C1_Witness ==
    /\ runner = "lib" /\ pc = "done"
    /\ NReturns("write", "fail") = 1
    /\ NCalls("create") = 1 /\ NCalls("kill") = 1

\* C2: when a required credential or the template identifier is absent,
\* the run ends in a configuration error and no provider call is made.
C2_NoProvisioningWithoutConfig ==
    (Guarded /\ ~AllConfigured) =>
        /\ calls = <<>>
        /\ pc = "done" => (outcome.kind = "raise"
                           /\ outcome.tag \in {"ValueError", "HTTPException"})

\* C3: a non-zero exit status makes run_agent raise the execution error
\* that carries the captured stderr, with exactly one kill call.
C3_NonZeroExitRaisesStderr ==
    (runner = "lib" /\ pc = "done" /\ NReturns("run", "ok") = 1
        /\ result.exit_code # 0) =>
        /\ outcome.kind = "raise"
        /\ outcome.tag = "RuntimeError"
        /\ Contains(outcome.text, result.stderr)
        /\ NCalls("kill") = 1

\* C4: when a step after provisioning has failed and kill fails too, the
\* caller observes the failure of that step, not the failure of kill.
C4_ReleaseFailureDoesNotMask ==
    (Guarded /\ pc = "done" /\ NReturns("kill", "fail") = 1
        /\ (pending.kind = "raise" \/ pending.tag = "failure")) =>
        outcome = pending

C6_CreateFailureSurfacedNoRetry ==
    (Guarded /\ NReturns("create", "fail") >= 1) =>
        /\ calls = <<Ev("create", "call", timeout), Ev("create", "fail", 0)>>
        /\ pc = "done" =>
            /\ outcome.text = ProviderError("create")
            /\ runner = "lib" => (outcome.kind = "raise" /\ outcome.tag = "CreateError")
            /\ runner = "api" => (outcome.kind = "return" /\ outcome.tag = "failure"
                                  /\ ~outcome.sandbox_id)

C6_Witness ==
    /\ runner = "api" /\ pc = "done"
    /\ NReturns("create", "fail") = 1
    /\ outcome.tag = "failure"

Before(i, op, evs) ==
    \E j \in 1..(i - 1) : calls[j].op = op /\ calls[j].ev \in evs

\* C7 as stated: write only after create returned a handle, run only after
\* the write succeeded, kill only after the run step returned or failed.
C7_ReleaseOnlyAfterRun ==
    runner \in Runners =>
    \A i \in DOMAIN calls : calls[i].ev = "call" =>
        /\ calls[i].op = "write" => Before(i, "create", {"ok"})
        /\ calls[i].op = "run" => Before(i, "write", {"ok"})
        /\ calls[i].op = "kill" => Before(i, "run", {"ok", "fail", "timeout"})

\* C7 amended: create is the first call; write is issued only after create
\* returned a handle; run only after the write succeeded; kill only after
\* the run step returned or failed or the write failed, with no call left
\* pending and the result collected; nothing but its return follows kill.
C7_StrictCallOrder ==
    runner \in Runners =>
    /\ \A i \in DOMAIN calls : calls[i].ev = "call" =>
        /\ calls[i].op = "create" => i = 1
        /\ calls[i].op = "write" => Before(i, "create", {"ok"})
        /\ calls[i].op = "run" => Before(i, "write", {"ok"})
        /\ calls[i].op = "kill" =>
            /\ Before(i, "create", {"ok"})
            /\ \/ Before(i, "run", {"ok", "fail", "timeout"})
               \/ Before(i, "write", {"fail"})
            /\ calls[i - 1].ev # "call"
            /\ \A j \in DOMAIN calls : j > i => calls[j].op = "kill"
    /\ NCalls("kill") > 0 => pc \in {"kill_wait", "done"}

C7_Witness ==
    /\ pc = "done" /\ runner = "sync"
    /\ Len(calls) = 8
    /\ calls[7] = Ev("kill", "call", 0)
    /\ calls[5] = Ev("run", "call", SyncRunTimeout)

\* trimmed is text without its surrounding whitespace
IsTrimOf(trimmed, text) ==
    /\ trimmed # <<>> => (Head(trimmed) \notin Whitespace
                           /\ trimmed[Len(trimmed)] \notin Whitespace)
    /\ \E i \in 0..Len(text) : \E j \in i..Len(text) :
        /\ SubSeq(text, i + 1, j) = trimmed
        /\ \A k \in (1..i) \cup ((j + 1)..Len(text)) : text[k] \in Whitespace

\* C10: run_agent returns a result exactly when the exit status is 0, and
\* the result is the standard output without its surrounding whitespace.
C10_ResultIffExitZero ==
    (runner = "lib" /\ pc = "done" /\ NReturns("run", "ok") = 1) =>
        /\ (result.exit_code = 0) <=> (outcome.kind = "return")
        /\ result.exit_code = 0 => IsTrimOf(outcome.text, result.stdout)

\* C8: the literal that run_agent embeds is one string token of the
\* generated program, and json.loads of its value is the prompt, whatever
\* quotes, backslashes and line ends the prompt holds; the same for the
\* allowed-tools list of the /agent/run handler.
C8_EmbeddedLiteralRoundTrip ==
    /\ cpc \in {"rendered", "executed"} =>
        /\ LoadsAt(Tokenize(agent_code), 2) = Loaded(TRUE, request.prompt)
        /\ gen = "api" =>
               LoadsAt(Tokenize(agent_code), 4) = Loaded(TRUE, request.allowed_tools)
        /\ gen = "lib" => Skeleton(agent_code) = Skeleton(LibAgentCode(DefaultRequest))
    /\ cpc = "executed" =>
        /\ received.prompt = Loaded(TRUE, request.prompt)
        /\ gen = "api" => received.allowed_tools = Loaded(TRUE, request.allowed_tools)

C8_Witness ==
    /\ cpc = "executed" /\ gen = "lib"
    /\ request.prompt = <<Quote, Backslash>>
    /\ received.prompt = Loaded(TRUE, <<Quote, Backslash>>)

\* C9: whatever prompt, allowed-tools list and model a request carries,
\* the program generated by the /agent/run handler has the structure of
\* the program generated for the default request, and hands the model
\* identifier to the agent unchanged.
C9_StructureIndependentOfRequest ==
    (gen = "api" /\ cpc = "executed") =>
        /\ received.structure = Skeleton(ApiAgentCode(DefaultRequest))
        /\ received.model = Loaded(TRUE, request.model)

\* C11: in run_agent, the /agent/run handler and run_agent_in_sandbox, the
\* timeout passed to commands.run is the timeout passed to create.
C11_RunTimeoutEqualsCreateTimeout ==
    runner \in Runners =>
        \A i \in DOMAIN calls : \A j \in DOMAIN calls :
            (calls[i] = Ev("create", "call", calls[i].timeout)
                /\ calls[j] = Ev("run", "call", calls[j].timeout)) =>
                calls[j].timeout = calls[i].timeout

\* C17: in run_agent, the /agent/run handler and validate_sandbox, at every
\* moment there are no more kill calls than successful creates: a kill is
\* only issued after create returned a handle, never after a failed
\* create, and never twice.
C17_KillNeverWithoutHandle ==
    runner \in {"lib", "api", "validate"} =>
        /\ NCalls("kill") <= NReturns("create", "ok")
        /\ NReturns("create", "ok") <= 1
        /\ NReturns("create", "fail") > 0 => NCalls("kill") = 0
        /\ \A i \in DOMAIN calls :
               calls[i] = Ev("kill", "call", 0) => Before(i, "create", {"ok"})

C17_Witness ==
    /\ runner = "validate" /\ pc = "done"
    /\ NReturns("create", "ok") = 1
    /\ NCalls("kill") = 1
    /\ NReturns("run", "fail") = 1

\* C19: validate_sandbox calls kill exactly once after a successful create,
\* whether it returns True, returns False at a failed required check or
\* leaves by an exception of a command; a failed create makes it return
\* False without raising and without any further call; main does not call
\* validate_sandbox, and no sandbox is created, when a variable is missing.
C19_ValidateReleasesOnEveryPath ==
    runner = "validate" =>
        /\ NCalls("kill") <= 1
        /\ (pc = "done" /\ NReturns("create", "ok") = 1) => NCalls("kill") = 1
        /\ NReturns("create", "fail") > 0 =>
            /\ calls = <<Ev("create", "call", ValCreateTimeout), Ev("create", "fail", 0)>>
            /\ pc = "done" /\ outcome = ReturnBool(FALSE)
        /\ ~AllConfigured =>
            /\ calls = <<>>
            /\ pc \in {"start", "done"}
            /\ pc = "done" => outcome = Raise("SystemExit", <<"1">>)

C19_Witness ==
    /\ runner = "validate" /\ pc = "done"
    /\ outcome = ReturnBool(FALSE)
    /\ NReturns("run", "ok") = 3 /\ result.exit_code # 0
    /\ NCalls("kill") = 1

\* The terminal outcomes of run_agent: a result, a configuration error, a
\* provisioning error, or an error raised once the sandbox exists.
TerminalOutcome ==
    \/ outcome.kind = "return" /\ outcome.tag = "str"
    \/ outcome.kind = "raise" /\ outcome.tag = "ValueError" /\ calls = <<>>
    \/ outcome.kind = "raise" /\ outcome.tag = "CreateError"
           /\ NReturns("create", "fail") = 1
    \/ outcome.kind = "raise" /\ NReturns("create", "ok") = 1
           /\ outcome.tag \in {"WriteError", "RunError", "TimeoutException",
                               "RuntimeError", "KillError"}

SingleShot ==
    /\ \A op \in {"create", "write", "run", "kill"} : NCalls(op) <= 1
    /\ \A i \in DOMAIN calls : calls[i].ev \in {"fail", "timeout"} =>
           \A j \in DOMAIN calls : j > i => calls[j].op = "kill"
    /\ (pc = "check" /\ result.exit_code # 0) => NCalls("kill") = 0
    /\ (pc = "done") <=> (outcome # NoVal)
    /\ outcome # NoVal => TerminalOutcome

\* C13: every invocation of run_agent ends, in exactly one terminal outcome;
\* create, write and run are each called at most once; once a step has
\* failed the only provider call still made is kill.
C13_SingleShotTerminates ==
    /\ [](runner = "lib" => SingleShot)
    /\ <>(pc = "done" /\ TerminalOutcome)

C13_Witness ==
    /\ runner = "lib" /\ pc = "done"
    /\ outcome.kind = "raise" /\ outcome.tag = "RuntimeError"
    /\ Len(calls) = 8

\* C18: with the configuration complete, the /agent/run handler ends every
\* request by returning an AgentResponse: success=false with a non-empty
\* error after a failed create, write or run or a non-zero exit code,
\* success=true only after exit code 0, and no sandbox_id exactly when no
\* sandbox was created.
C18_FailuresReportedAsValues ==
    (runner = "api" /\ AllConfigured /\ pc = "done") =>
        /\ outcome.kind = "return"
        /\ outcome.tag \in {"success", "failure"}
        /\ (\/ \E i \in DOMAIN calls : calls[i].ev \in {"fail", "timeout"}
                                       /\ calls[i].op # "kill"
            \/ NReturns("run", "ok") = 1 /\ result.exit_code # 0) =>
               (outcome.tag = "failure" /\ outcome.text # <<>>)
        /\ outcome.tag = "success" =>
               (NReturns("run", "ok") = 1 /\ result.exit_code = 0)
        /\ ~outcome.sandbox_id <=> NReturns("create", "ok") = 0

-----------------------------------------------------------------------------
\* main of run_agent.py: the command-line entry point

MaxArg == 1

\* A command-line value as argparse hands it over: None when the option
\* is absent, otherwise its text
Arg(given, text) == [given |-> given, text |-> text]
NoArg == Arg(FALSE, <<>>)
Args == {NoArg} \cup {Arg(TRUE, t) : t \in SeqsUpTo({"a", "b"}, MaxArg)}

Truthy(a) == a.given /\ a.text # <<>>
\* Python's `a or b`
Or(a, b) == IF Truthy(a) THEN a ELSE b

CliInit ==
    /\ runner = "lib"
    /\ cfg \in Configs
    /\ timeout \in 1..MaxTimeout
    /\ pc = "idle"
    /\ calls = <<>>
    /\ sandbox = FALSE
    /\ pending = NoVal
    /\ outcome = NoVal
    /\ result = NoResult
    /\ hangs = FALSE
    /\ elapsed = 0
    /\ CIdle
    /\ conc = Idle /\ pair = Idle /\ org = Idle /\ prog = Idle
    /\ \E pos \in Args : \E flag \in Args :
        cli = [pc |-> "parse", prompt |-> pos, prompt_flag |-> flag,
               printed |-> "nothing", stdout |-> <<>>, stderr |-> <<>>,
               exit_status |-> 0]

\* as if the flag were looked at first
CliParseFlagFirst ==
    /\ cli.pc = "parse"
    /\ LET prompt == Or(cli.prompt_flag, cli.prompt) IN
        IF ~Truthy(prompt)
        THEN /\ cli' = [cli EXCEPT !.pc = "exited", !.printed = "help",
                                   !.exit_status = 1]
             /\ UNCHANGED <<pc, request>>
        ELSE /\ cli' = [cli EXCEPT !.pc = "running"]
             /\ request' = Request(prompt.text, DefaultTools, DefaultModel)
             /\ pc' = "start"
    /\ UNCHANGED <<conc, pair, org, prog, gen, agent_code, received, cpc,
                   runner, cfg, timeout, calls, sandbox, pending, outcome,
                   result, hangs, elapsed>>

\* parse_args, `prompt = args.prompt or args.prompt_flag`, the help and
\* exit 1 when there is no prompt, otherwise the call of run_agent
CliParse ==
    /\ cli.pc = "parse"
    /\ LET prompt == Or(cli.prompt, cli.prompt_flag) IN
        IF ~Truthy(prompt)
        THEN /\ cli' = [cli EXCEPT !.pc = "exited", !.printed = "help",
                                   !.exit_status = 1]
             /\ UNCHANGED <<pc, request>>
        ELSE /\ cli' = [cli EXCEPT !.pc = "running"]
             /\ request' = Request(prompt.text, DefaultTools, DefaultModel)
             /\ pc' = "start"
    /\ UNCHANGED <<conc, pair, org, prog, gen, agent_code, received, cpc,
                   runner, cfg, timeout, calls, sandbox, pending, outcome,
                   result, hangs, elapsed>>

\* print(result), or `except Exception` with the message on stderr and exit 1
CliFinish ==
    /\ cli.pc = "running" /\ pc = "done"
    /\ IF outcome.kind = "return"
       THEN cli' = [cli EXCEPT !.pc = "exited", !.printed = "result",
                               !.stdout = outcome.text, !.exit_status = 0]
       ELSE cli' = [cli EXCEPT !.pc = "exited",
                               !.stderr = <<"Error: ">> \o outcome.text,
                               !.exit_status = 1]
    /\ UNCHANGED <<conc, pair, org, prog, cvars, rvars>>

CliSpec == CliInit /\ [][CliParse \/ Tick \/ LibNext \/ CliFinish]_vars

\* C20: main exits with status 1 without calling run_agent when neither
\* the positional prompt nor the flag is a non-empty text; a non-empty
\* positional prompt is the one passed on, whatever the flag says; an
\* exception out of run_agent ends in exit status 1 with no result on
\* stdout and the message on stderr.
C20_CliExitsOneOnFailure ==
    /\ (~Truthy(cli.prompt) /\ ~Truthy(cli.prompt_flag)) =>
           /\ calls = <<>> /\ pc = "idle"
           /\ cli.pc = "exited" => (cli.exit_status = 1 /\ cli.printed = "help")
    /\ (Truthy(cli.prompt) /\ cli.pc # "parse") =>
           request.prompt = cli.prompt.text
    /\ (cli.pc = "exited" /\ outcome.kind = "raise") =>
           /\ cli.exit_status = 1
           /\ cli.printed = "nothing" /\ cli.stdout = <<>>
           /\ cli.stderr = <<"Error: ">> \o outcome.text
    /\ (cli.pc = "exited" /\ cli.exit_status = 0) =>
           (outcome.kind = "return" /\ cli.stdout = outcome.text)

C20_Witness ==
    /\ cli.pc = "exited" /\ cli.exit_status = 1
    /\ Truthy(cli.prompt) /\ Truthy(cli.prompt_flag)
    /\ cli.prompt # cli.prompt_flag
    /\ outcome.kind = "raise" /\ outcome.tag = "CreateError"

-----------------------------------------------------------------------------
\* The program that run_agent writes to /home/user/agent.py, run by
\* commands.run: the loop over the messages of query() and the final print

MaxMsgs == 2
MaxResult == 1

\* A message of the agent: with or without a result attribute; the
\* attribute is None or a text
Msg(has_result, res) == [has_result |-> has_result, result |-> res]
Msgs ==
    {Msg(FALSE, NoArg)}
    \cup {Msg(TRUE, NoArg)}
    \cup {Msg(TRUE, Arg(TRUE, t)) : t \in SeqsUpTo({"a", " "}, MaxResult)}

AgentInit ==
    /\ runner = "lib"
    /\ cfg = [E2B_TEMPLATE_ID |-> TRUE, CLAUDE_CODE_OAUTH_TOKEN |-> TRUE,
              E2B_API_KEY |-> TRUE]
    /\ timeout = 1
    /\ pc = "start"
    /\ calls = <<>>
    /\ sandbox = FALSE
    /\ pending = NoVal
    /\ outcome = NoVal
    /\ result = NoResult
    /\ hangs = FALSE
    /\ elapsed = 0
    /\ CIdle
    /\ conc = Idle /\ pair = Idle /\ org = Idle /\ cli = Idle
    /\ \E msgs \in SeqsUpTo(Msgs, MaxMsgs) :
        prog = [pc |-> "waiting", msgs |-> msgs, i |-> 1, result |-> NoArg,
                printed |-> <<>>, stdout |-> <<>>, stderr |-> <<>>,
                exit_code |-> 0]

\* python3 /home/user/agent.py starts: result = None
ProgStart ==
    /\ pc = "run_wait" /\ prog.pc = "waiting"
    /\ prog' = [prog EXCEPT !.pc = "loop"]
    /\ UNCHANGED <<conc, pair, org, cli, cvars, rvars>>

\* one turn of `async for msg in query(prompt=prompt)`
ProgStep ==
    /\ pc = "run_wait" /\ prog.pc = "loop" /\ prog.i <= Len(prog.msgs)
    /\ LET msg == prog.msgs[prog.i] IN
        prog' = [prog EXCEPT !.i = @ + 1,
                             !.result = IF msg.has_result THEN msg.result
                                        ELSE @]
    /\ UNCHANGED <<conc, pair, org, cli, cvars, rvars>>

\* query() raises: the traceback goes to stderr and the exit code is 1
ProgQueryRaises ==
    /\ pc = "run_wait" /\ prog.pc = "loop" /\ prog.i <= Len(prog.msgs)
    /\ prog' = [prog EXCEPT !.pc = "exited", !.exit_code = 1,
                            !.stderr = <<"b">>]
    /\ UNCHANGED <<conc, pair, org, cli, cvars, rvars>>

\* the loop is over: `if result: print(result)`, then the program ends
ProgPrint ==
    /\ pc = "run_wait" /\ prog.pc = "loop" /\ prog.i > Len(prog.msgs)
    /\ IF Truthy(prog.result)
       THEN prog' = [prog EXCEPT !.pc = "exited",
                                 !.printed = Append(@, prog.result.text),
                                 !.stdout = @ \o prog.result.text \o <<"\n">>]
       ELSE prog' = [prog EXCEPT !.pc = "exited"]
    /\ UNCHANGED <<conc, pair, org, cli, cvars, rvars>>

\* commands.run returns the CommandResult of the program
ProgRunReturns ==
    /\ runner = "lib" /\ pc = "run_wait" /\ ~hangs
    /\ prog.pc = "exited"
    /\ result' = [exit_code |-> prog.exit_code, stdout |-> prog.stdout,
                  stderr |-> prog.stderr]
    /\ Return("run", "ok")
    /\ pc' = "check"
    /\ UNCHANGED <<xvars, cvars, runner, cfg, timeout, sandbox, pending, outcome, hangs, elapsed>>

AgentSpec ==
    /\ AgentInit
    /\ [][
        \/ Tick
        \/ LibValidate \/ LibCreate \/ LibCreateReturns \/ LibWrite
        \/ LibWriteReturns \/ LibRun \/ LibRunFails \/ LibRunTimesOut
        \/ LibCheck \/ LibKill \/ LibKillReturns
        \/ ProgStart \/ ProgStep \/ ProgQueryRaises \/ ProgPrint \/ ProgRunReturns
       ]_vars

\* The result attribute of the last message that has one, None if none has
LastResult(msgs) ==
    LET withResult == {k \in DOMAIN msgs : msgs[k].has_result} IN
    IF withResult = {} THEN NoArg
    ELSE msgs[CHOOSE k \in withResult : \A l \in withResult : l <= k].result

\* C16: the generated program prints at most once and only after all
\* messages have been consumed; what it prints is the result of the last
\* message with a result field; it prints nothing when no message has the
\* field or that last result is empty, and run_agent then returns the
\* empty string and raises nothing.
C16_OutputIsLastResult ==
    /\ Len(prog.printed) <= 1
    /\ prog.printed # <<>> =>
           /\ prog.i > Len(prog.msgs)
           /\ Truthy(LastResult(prog.msgs))
           /\ prog.printed = <<LastResult(prog.msgs).text>>
    /\ (prog.pc = "exited" /\ prog.exit_code = 0) =>
           IF Truthy(LastResult(prog.msgs))
           THEN prog.printed = <<LastResult(prog.msgs).text>>
           ELSE prog.printed = <<>> /\ prog.stdout = <<>>
    /\ (pc = "done" /\ NReturns("run", "ok") = 1 /\ prog.exit_code = 0
            /\ prog.printed = <<>>) =>
           outcome = Val("return", "str", <<>>, FALSE)

-----------------------------------------------------------------------------
\* main of agents/organizer/run.py, with sync_workspace and run_agent

MaxFiles == 1
OrgTimeout == 300

OrgInit ==
    /\ runner = "organizer"
    /\ cfg = [E2B_TEMPLATE_ID |-> TRUE, CLAUDE_CODE_OAUTH_TOKEN |-> TRUE,
              E2B_API_KEY |-> TRUE]
    /\ timeout = OrgTimeout
    /\ pc = "idle"
    /\ calls = <<>>
    /\ sandbox = FALSE
    /\ pending = NoVal
    /\ outcome = NoVal
    /\ result = NoResult
    /\ hangs = FALSE
    /\ elapsed = 0
    /\ CIdle
    /\ conc = Idle /\ pair = Idle /\ prog = Idle /\ cli = Idle
    /\ \E e2b \in BOOLEAN, anthropic \in BOOLEAN, prompt \in Args,
          w \in {"none", "missing", "present"}, k \in BOOLEAN, n \in 0..MaxFiles :
        org = [pc |-> "start", E2B_API_KEY |-> e2b,
               ANTHROPIC_API_KEY |-> anthropic, prompt |-> prompt,
               workspace |-> w, keep_alive |-> k,
               files |-> IF w = "present" THEN n ELSE 0,
               exit_status |-> 0]

\* sys.exit(status): the process ends here
OrgExit(status) == org' = [org EXCEPT !.pc = "exited", !.exit_status = status]

\* the two environment checks, each with sys.exit(1)
OrgCheckEnvironment ==
    /\ org.pc = "start"
    /\ IF org.E2B_API_KEY /\ org.ANTHROPIC_API_KEY
       THEN org' = [org EXCEPT !.pc = "create"]
       ELSE OrgExit(1)
    /\ UNCHANGED <<calls, sandbox>>
    /\ UNCHANGED <<conc, pair, prog, cli, cvars, runner, cfg, timeout, pc,
                   pending, outcome, result, hangs, elapsed>>

OrgCreate ==
    /\ org.pc = "create"
    /\ Issue("create", timeout)
    /\ org' = [org EXCEPT !.pc = "create_wait"]
    /\ UNCHANGED sandbox
    /\ UNCHANGED <<conc, pair, prog, cli, cvars, runner, cfg, timeout, pc,
                   pending, outcome, result, hangs, elapsed>>

\* Sandbox(...) returns, or raises into `except Exception`: sys.exit(1)
OrgCreateReturns ==
    /\ org.pc = "create_wait"
    /\ \E a \in {"ok", "fail"} :
        /\ Return("create", a)
        /\ IF a = "ok"
           THEN sandbox' = TRUE /\ org' = [org EXCEPT !.pc = "workspace"]
           ELSE sandbox' = sandbox /\ OrgExit(1)
    /\ UNCHANGED <<conc, pair, prog, cli, cvars, runner, cfg, timeout, pc,
                   pending, outcome, result, hangs, elapsed>>

\* `if args.workspace:` and the sys.exit(1) for a path that does not
\* exist; SystemExit is no Exception and leaves main at once
OrgWorkspace ==
    /\ org.pc = "workspace"
    /\ IF org.workspace = "none" THEN org' = [org EXCEPT !.pc = "agent"]
       ELSE IF org.workspace = "missing" THEN OrgExit(1)
       ELSE org' = [org EXCEPT !.pc = "sync"]
    /\ UNCHANGED <<calls, sandbox>>
    /\ UNCHANGED <<conc, pair, prog, cli, cvars, runner, cfg, timeout, pc,
                   pending, outcome, result, hangs, elapsed>>

\* sync_workspace: for each file mkdir -p through commands.run ...
OrgSyncMkdir ==
    /\ org.pc = "sync"
    /\ IF org.files = 0
       THEN org' = [org EXCEPT !.pc = "agent"] /\ calls' = calls
       ELSE org' = [org EXCEPT !.pc = "mkdir_wait"] /\ Issue("run", 0)
    /\ UNCHANGED sandbox
    /\ UNCHANGED <<conc, pair, prog, cli, cvars, runner, cfg, timeout, pc,
                   pending, outcome, result, hangs, elapsed>>

OrgSyncMkdirReturns ==
    /\ org.pc = "mkdir_wait"
    /\ \E a \in {"ok", "fail"} :
        /\ Return("run", a)
        /\ IF a = "ok" THEN org' = [org EXCEPT !.pc = "upload"]
           ELSE OrgExit(1)
    /\ UNCHANGED sandbox
    /\ UNCHANGED <<conc, pair, prog, cli, cvars, runner, cfg, timeout, pc,
                   pending, outcome, result, hangs, elapsed>>

\* ... and the upload through files.write
OrgSyncWrite ==
    /\ org.pc = "upload"
    /\ Issue("write", 0)
    /\ org' = [org EXCEPT !.pc = "upload_wait"]
    /\ UNCHANGED sandbox
    /\ UNCHANGED <<conc, pair, prog, cli, cvars, runner, cfg, timeout, pc,
                   pending, outcome, result, hangs, elapsed>>

OrgSyncWriteReturns ==
    /\ org.pc = "upload_wait"
    /\ \E a \in WriteAnswers :
        /\ Return("write", a)
        /\ IF a = "ok"
           THEN org' = [org EXCEPT !.pc = "sync", !.files = @ - 1]
           ELSE OrgExit(1)
    /\ UNCHANGED sandbox
    /\ UNCHANGED <<conc, pair, prog, cli, cvars, runner, cfg, timeout, pc,
                   pending, outcome, result, hangs, elapsed>>

\* run_agent: with a prompt the command is run at once; without one a
\* line is read, and KeyboardInterrupt is caught there
OrgAgent ==
    /\ org.pc = "agent"
    /\ IF Truthy(org.prompt)
       THEN org' = [org EXCEPT !.pc = "run_wait"] /\ Issue("run", OrgTimeout)
       ELSE \E in \in {"text", "blank", "KeyboardInterrupt", "EOFError"} :
            IF in = "text"
            THEN org' = [org EXCEPT !.pc = "run_wait"] /\ Issue("run", OrgTimeout)
            ELSE IF in = "EOFError"
            THEN OrgExit(1) /\ calls' = calls
            ELSE org' = [org EXCEPT !.pc = "lifecycle"] /\ calls' = calls
    /\ UNCHANGED sandbox
    /\ UNCHANGED <<conc, pair, prog, cli, cvars, runner, cfg, timeout, pc,
                   pending, outcome, result, hangs, elapsed>>

OrgRunReturns ==
    /\ org.pc = "run_wait"
    /\ \E a \in {"ok", "fail", "timeout"} :
        /\ Return("run", a)
        /\ IF a = "ok" THEN org' = [org EXCEPT !.pc = "lifecycle"]
           ELSE OrgExit(1)
    /\ UNCHANGED sandbox
    /\ UNCHANGED <<conc, pair, prog, cli, cvars, runner, cfg, timeout, pc,
                   pending, outcome, result, hangs, elapsed>>

\* `if args.keep_alive: ... else: sandbox.kill()`
OrgLifecycle ==
    /\ org.pc = "lifecycle"
    /\ IF org.keep_alive
       THEN OrgExit(0) /\ calls' = calls
       ELSE org' = [org EXCEPT !.pc = "kill_wait"] /\ Issue("kill", 0)
    /\ UNCHANGED sandbox
    /\ UNCHANGED <<conc, pair, prog, cli, cvars, runner, cfg, timeout, pc,
                   pending, outcome, result, hangs, elapsed>>

OrgKillReturns ==
    /\ org.pc = "kill_wait"
    /\ \E a \in KillAnswers :
        /\ Return("kill", a)
        /\ OrgExit(IF a = "ok" THEN 0 ELSE 1)
    /\ UNCHANGED sandbox
    /\ UNCHANGED <<conc, pair, prog, cli, cvars, runner, cfg, timeout, pc,
                   pending, outcome, result, hangs, elapsed>>

OrgSpec ==
    /\ OrgInit
    /\ [][
        \/ OrgCheckEnvironment \/ OrgCreate \/ OrgCreateReturns \/ OrgWorkspace
        \/ OrgSyncMkdir \/ OrgSyncMkdirReturns \/ OrgSyncWrite
        \/ OrgSyncWriteReturns \/ OrgAgent \/ OrgRunReturns \/ OrgLifecycle
        \/ OrgKillReturns
       ]_vars

\* C15: once the organizer has its sandbox, a run without --keep-alive
\* ends with exactly one kill call on every exit path, and a successful
\* run with --keep-alive ends with none.
C15_OrganizerAlwaysKills ==
    /\ NCalls("kill") <= 1
    /\ (org.pc = "exited" /\ sandbox /\ ~org.keep_alive) => NCalls("kill") = 1
    /\ (org.pc = "exited" /\ org.keep_alive /\ org.exit_status = 0) =>
           NCalls("kill") = 0

-----------------------------------------------------------------------------
\* main of examples/run_agent.py (awaited AsyncSandbox calls), run against
\* the provider responses that run_agent_in_sandbox of basic_sync.py met

PairInit ==
    /\ RInit
    /\ runner = "sync"
    /\ CIdle
    /\ conc = Idle /\ org = Idle /\ prog = Idle /\ cli = Idle
    /\ pair = [pc |-> "start", calls |-> <<>>, sandbox |-> FALSE,
               pending |-> NoVal, outcome |-> NoVal, result |-> NoResult]

\* The provider answers op as it answered the blocking runner; an
\* operation that runner never came to is answered in any way
Replay(op, all) ==
    LET got == {i \in DOMAIN calls : calls[i].op = op /\ calls[i].ev # "call"}
    IN  IF got = {} THEN all ELSE {calls[i].ev : i \in got}

AsyncCreate ==
    /\ pc = "done" /\ pair.pc = "start"
    /\ pair' = [pair EXCEPT !.pc = "create_wait",
                            !.calls = Append(@, Ev("create", "call", 60))]
    /\ UNCHANGED <<conc, org, prog, cli, cvars, rvars>>

\* create is awaited before the try block
AsyncCreateReturns ==
    /\ pair.pc = "create_wait"
    /\ \E a \in Replay("create", CreateAnswers) :
        pair' = IF a = "ok"
                THEN [pair EXCEPT !.pc = "write", !.sandbox = TRUE,
                                  !.calls = Append(@, Ev("create", a, 0))]
                ELSE [pair EXCEPT !.pc = "done",
                                  !.calls = Append(@, Ev("create", a, 0)),
                                  !.outcome = Raise("CreateError",
                                                    ProviderError("create"))]
    /\ UNCHANGED <<conc, org, prog, cli, cvars, rvars>>

AsyncWrite ==
    /\ pair.pc = "write"
    /\ pair' = [pair EXCEPT !.pc = "write_wait",
                            !.calls = Append(@, Ev("write", "call", 0))]
    /\ UNCHANGED <<conc, org, prog, cli, cvars, rvars>>

\* as if files.write were awaited before the try block
AsyncWriteReturnsNoFinally ==
    /\ pair.pc = "write_wait"
    /\ \E a \in Replay("write", WriteAnswers) :
        pair' = IF a = "ok"
                THEN [pair EXCEPT !.pc = "run",
                                  !.calls = Append(@, Ev("write", a, 0))]
                ELSE [pair EXCEPT !.pc = "done",
                                  !.calls = Append(@, Ev("write", a, 0)),
                                  !.outcome = Raise("WriteError",
                                                    ProviderError("write"))]
    /\ UNCHANGED <<conc, org, prog, cli, cvars, rvars>>

AsyncWriteReturns ==
    /\ pair.pc = "write_wait"
    /\ \E a \in Replay("write", WriteAnswers) :
        pair' = IF a = "ok"
                THEN [pair EXCEPT !.pc = "run",
                                  !.calls = Append(@, Ev("write", a, 0))]
                ELSE [pair EXCEPT !.pc = "finally",
                                  !.calls = Append(@, Ev("write", a, 0)),
                                  !.pending = Raise("WriteError",
                                                    ProviderError("write"))]
    /\ UNCHANGED <<conc, org, prog, cli, cvars, rvars>>

AsyncRun ==
    /\ pair.pc = "run"
    /\ pair' = [pair EXCEPT !.pc = "run_wait",
                            !.calls = Append(@, Ev("run", "call", 60))]
    /\ UNCHANGED <<conc, org, prog, cli, cvars, rvars>>

\* the result is printed and main returns None, or commands.run raises
AsyncRunReturns ==
    /\ pair.pc = "run_wait"
    /\ \E a \in Replay("run", {"ok", "fail", "timeout"}) :
        pair' = IF a = "ok"
                THEN [pair EXCEPT !.pc = "finally", !.result = result,
                                  !.calls = Append(@, Ev("run", a, 0)),
                                  !.pending = Val("return", "None", <<>>, FALSE)]
                ELSE [pair EXCEPT !.pc = "finally",
                                  !.calls = Append(@, Ev("run", a, 0)),
                                  !.pending =
                                      IF a = "fail"
                                      THEN Raise("RunError", ProviderError("run"))
                                      ELSE Raise("TimeoutException",
                                                 ProviderError("run"))]
    /\ UNCHANGED <<conc, org, prog, cli, cvars, rvars>>

AsyncKill ==
    /\ pair.pc = "finally"
    /\ pair' = [pair EXCEPT !.pc = "kill_wait",
                            !.calls = Append(@, Ev("kill", "call", 0))]
    /\ UNCHANGED <<conc, org, prog, cli, cvars, rvars>>

AsyncKillReturns ==
    /\ pair.pc = "kill_wait"
    /\ \E a \in Replay("kill", KillAnswers) :
        pair' = [pair EXCEPT !.pc = "done",
                             !.calls = Append(@, Ev("kill", a, 0)),
                             !.outcome = Finally(pair.pending, a)]
    /\ UNCHANGED <<conc, org, prog, cli, cvars, rvars>>

PairSpec ==
    /\ PairInit
    /\ [][\/ Tick \/ SyncNext
        \/ AsyncCreate \/ AsyncCreateReturns \/ AsyncWrite \/ AsyncWriteReturns
        \/ AsyncRun \/ AsyncRunReturns \/ AsyncKill \/ AsyncKillReturns
       ]_vars

\* The operations of a call log, their arguments left aside
Ops(log) == [i \in DOMAIN log |-> <<log[i].op, log[i].ev>>]

\* C14: given the provider responses the blocking runner met, the
\* asynchronous main issues the same provider operations in the same
\* order, ends in the same way and releases the sandbox exactly when the
\* blocking runner did; each awaited call has returned before the next one
\* is issued.
C14_SyncAsyncSameOperations ==
    /\ Len(pair.calls) <= Len(calls)
    /\ Ops(pair.calls) = Ops(SubSeq(calls, 1, Len(pair.calls)))
    /\ pair.pc = "done" =>
           /\ Ops(pair.calls) = Ops(calls)
           /\ pair.outcome = outcome
           /\ pair.sandbox = sandbox
    /\ \A i \in DOMAIN pair.calls :
           (pair.calls[i].ev = "call" /\ i < Len(pair.calls)) =>
               /\ pair.calls[i + 1].op = pair.calls[i].op
               /\ pair.calls[i + 1].ev # "call"

C14_Witness ==
    /\ pair.pc = "done"
    /\ Ops(pair.calls) = <<<<"create", "call">>, <<"create", "ok">>,
                           <<"write", "call">>, <<"write", "fail">>,
                           <<"kill", "call">>, <<"kill", "ok">>>>
    /\ pair.outcome = Raise("WriteError", ProviderError("write"))

-----------------------------------------------------------------------------
\* Several /agent/run requests, or run_agent coroutines, on one event
\* loop.  Each task holds its handle in the local variable sandbox; the
\* provider hands out a fresh sandbox per create and keeps, per sandbox,
\* whether it is alive and whose program lies at /home/user/agent.py.

NTasks == 2
Tasks == 1..NTasks

ConcInit ==
    /\ RIdle
    /\ CIdle
    /\ pair = Idle /\ org = Idle /\ prog = Idle /\ cli = Idle
    /\ \E kinds \in [Tasks -> {"api", "lib"}] :
        conc = [task |-> [t \in Tasks |->
                    [kind |-> kinds[t], pc |-> "create", sandbox |-> 0,
                     calls |-> <<>>, exit_code |-> 0, ran |-> 0,
                     pending |-> NoVal, outcome |-> NoVal]],
                sandboxes |-> <<>>]

TEv(op, ev, target) == [op |-> op, ev |-> ev, target |-> target]

Alive(id) == id \in DOMAIN conc.sandboxes /\ conc.sandboxes[id].alive

\* What a task delivers for a provider call that raised
TaskFailure(kind, op, ev, sid) ==
    IF kind = "api" THEN AgentResponse(FALSE, ProviderError(op), sid)
    ELSE Raise(IF ev = "timeout" THEN "TimeoutException"
               ELSE IF op = "create" THEN "CreateError"
               ELSE IF op = "write" THEN "WriteError"
               ELSE "RunError",
               ProviderError(op))

\* What a task delivers for a CommandResult
TaskResult(kind, exit_code) ==
    IF kind = "api"
    THEN IF exit_code # 0 THEN AgentResponse(FALSE, <<"b">>, TRUE)
         ELSE AgentResponse(TRUE, <<"4">>, TRUE)
    ELSE IF exit_code # 0 THEN Raise("RuntimeError", <<"Agent failed: ", "b">>)
         ELSE Val("return", "str", <<"4">>, FALSE)

TaskCreate(t) ==
    LET me == conc.task[t] IN
    /\ me.pc = "create"
    /\ conc' = [conc EXCEPT !.task[t].pc = "create_wait",
                            !.task[t].calls = Append(@, TEv("create", "call", 0))]
    /\ UNCHANGED <<pair, org, prog, cli, cvars, rvars>>

\* as if the handle were kept in a module-level variable
TaskCreateReturnsShared(t) ==
    LET me == conc.task[t]
        id == Len(conc.sandboxes) + 1
    IN
    /\ me.pc = "create_wait"
    /\ \/ conc' = [conc EXCEPT
                     !.sandboxes = Append(@, [alive |-> TRUE, file |-> 0]),
                     !.task = [u \in Tasks |->
                         IF u = t
                         THEN [me EXCEPT !.pc = "write", !.sandbox = id,
                                  !.calls = Append(@, TEv("create", "ok", id))]
                         ELSE [conc.task[u] EXCEPT !.sandbox = id]]]
       \/ conc' = [conc EXCEPT
                     !.task[t].calls = Append(@, TEv("create", "fail", 0)),
                     !.task[t].pc = IF me.kind = "api" THEN "finally" ELSE "done",
                     !.task[t].pending =
                         IF me.kind = "api"
                         THEN TaskFailure(me.kind, "create", "fail", FALSE)
                         ELSE @,
                     !.task[t].outcome =
                         IF me.kind = "api" THEN @
                         ELSE TaskFailure(me.kind, "create", "fail", FALSE)]
    /\ UNCHANGED <<pair, org, prog, cli, cvars, rvars>>

\* the provider hands out a sandbox nobody else holds, or create raises:
\* into `except Exception` in the handler, out of run_agent in the library
TaskCreateReturns(t) ==
    LET me == conc.task[t]
        id == Len(conc.sandboxes) + 1
    IN
    /\ me.pc = "create_wait"
    /\ \/ conc' = [conc EXCEPT
                     !.sandboxes = Append(@, [alive |-> TRUE, file |-> 0]),
                     !.task[t].pc = "write",
                     !.task[t].sandbox = id,
                     !.task[t].calls = Append(@, TEv("create", "ok", id))]
       \/ conc' = [conc EXCEPT
                     !.task[t].calls = Append(@, TEv("create", "fail", 0)),
                     !.task[t].pc = IF me.kind = "api" THEN "finally" ELSE "done",
                     !.task[t].pending =
                         IF me.kind = "api"
                         THEN TaskFailure(me.kind, "create", "fail", FALSE)
                         ELSE @,
                     !.task[t].outcome =
                         IF me.kind = "api" THEN @
                         ELSE TaskFailure(me.kind, "create", "fail", FALSE)]
    /\ UNCHANGED <<pair, org, prog, cli, cvars, rvars>>

TaskWrite(t) ==
    LET me == conc.task[t] IN
    /\ me.pc = "write"
    /\ conc' = [conc EXCEPT !.task[t].pc = "write_wait",
                            !.task[t].calls = Append(@, TEv("write", "call", me.sandbox))]
    /\ UNCHANGED <<pair, org, prog, cli, cvars, rvars>>

\* files.write puts the task's program into the sandbox it names
TaskWriteReturns(t) ==
    LET me == conc.task[t]
        id == me.sandbox
    IN
    /\ me.pc = "write_wait"
    /\ \E a \in (IF Alive(id) THEN WriteAnswers ELSE {"gone"}) :
        conc' = IF a = "ok"
                THEN [conc EXCEPT !.sandboxes[id].file = t,
                                  !.task[t].pc = "run",
                                  !.task[t].calls = Append(@, TEv("write", a, id))]
                ELSE [conc EXCEPT !.task[t].pc = "finally",
                                  !.task[t].calls = Append(@, TEv("write", a, id)),
                                  !.task[t].pending =
                                      TaskFailure(me.kind, "write", a, TRUE)]
    /\ UNCHANGED <<pair, org, prog, cli, cvars, rvars>>

TaskRun(t) ==
    LET me == conc.task[t] IN
    /\ me.pc = "run"
    /\ conc' = [conc EXCEPT !.task[t].pc = "run_wait",
                            !.task[t].calls = Append(@, TEv("run", "call", me.sandbox))]
    /\ UNCHANGED <<pair, org, prog, cli, cvars, rvars>>

\* commands.run executes whatever lies at /home/user/agent.py of the
\* sandbox it names; without a program there python3 exits non-zero
TaskRunReturns(t) ==
    LET me == conc.task[t]
        id == me.sandbox
    IN
    /\ me.pc = "run_wait"
    /\ \E a \in (IF Alive(id) THEN {"ok", "fail", "timeout"} ELSE {"gone"}) :
       \E e \in (IF a = "ok" /\ conc.sandboxes[id].file # 0 THEN {0, 1} ELSE {1}) :
        conc' = IF a = "ok"
                THEN [conc EXCEPT !.task[t].pc = "finally",
                                  !.task[t].calls = Append(@, TEv("run", a, id)),
                                  !.task[t].ran = conc.sandboxes[id].file,
                                  !.task[t].exit_code = e,
                                  !.task[t].pending = TaskResult(me.kind, e)]
                ELSE [conc EXCEPT !.task[t].pc = "finally",
                                  !.task[t].calls = Append(@, TEv("run", a, id)),
                                  !.task[t].pending =
                                      TaskFailure(me.kind, "run", a, TRUE)]
    /\ UNCHANGED <<pair, org, prog, cli, cvars, rvars>>

\* finally: kill the sandbox held (the handler only `if sandbox`)
TaskKill(t) ==
    LET me == conc.task[t] IN
    /\ me.pc = "finally"
    /\ conc' = IF me.sandbox = 0
               THEN [conc EXCEPT !.task[t].pc = "done",
                                 !.task[t].outcome = me.pending]
               ELSE [conc EXCEPT !.task[t].pc = "kill_wait",
                                 !.task[t].calls =
                                     Append(@, TEv("kill", "call", me.sandbox))]
    /\ UNCHANGED <<pair, org, prog, cli, cvars, rvars>>

TaskKillReturns(t) ==
    LET me == conc.task[t]
        id == me.sandbox
    IN
    /\ me.pc = "kill_wait"
    /\ \E a \in (IF Alive(id) THEN KillAnswers ELSE {"gone"}) :
        conc' = [conc EXCEPT
                   !.sandboxes = IF a = "ok" THEN [@ EXCEPT ![id].alive = FALSE]
                                 ELSE @,
                   !.task[t].pc = "done",
                   !.task[t].calls = Append(@, TEv("kill", a, id)),
                   !.task[t].outcome =
                       Finally(me.pending, IF a = "ok" THEN "ok" ELSE "fail")]
    /\ UNCHANGED <<pair, org, prog, cli, cvars, rvars>>

ConcSpec ==
    /\ ConcInit
    /\ [][
        \E t \in Tasks :
            \/ TaskCreate(t) \/ TaskCreateReturns(t) \/ TaskWrite(t)
            \/ TaskWriteReturns(t) \/ TaskRun(t) \/ TaskRunReturns(t)
            \/ TaskKill(t) \/ TaskKillReturns(t)
       ]_vars

\* The sandboxes a task was handed by its own create calls
Created(t) ==
    {conc.task[t].calls[i].target : i \in
        {j \in DOMAIN conc.task[t].calls :
            conc.task[t].calls[j].op = "create" /\ conc.task[t].calls[j].ev = "ok"}}

\* The provider's answer to the task's call of op, "none" if never called
Answer(log, op) ==
    LET got == {i \in DOMAIN log : log[i].op = op /\ log[i].ev # "call"}
    IN  IF got = {} THEN "none" ELSE log[CHOOSE i \in got : TRUE].ev

\* What the task delivers when it runs alone and the provider answers its
\* calls as in log
Solo(kind, log, exit_code) ==
    IF Answer(log, "create") # "ok"
    THEN TaskFailure(kind, "create", Answer(log, "create"), FALSE)
    ELSE Finally(IF Answer(log, "write") # "ok"
                 THEN TaskFailure(kind, "write", Answer(log, "write"), TRUE)
                 ELSE IF Answer(log, "run") # "ok"
                 THEN TaskFailure(kind, "run", Answer(log, "run"), TRUE)
                 ELSE TaskResult(kind, exit_code),
                 Answer(log, "kill"))

\* C12: in every interleaving of the tasks, each task is handed a sandbox
\* of its own, each of its write, run and kill calls names that sandbox,
\* no call of it meets a sandbox somebody else wrote to or killed, and
\* what it delivers is what the same provider answers give it alone.
C12_NoSharingAcrossTasks ==
    \A t \in Tasks :
        LET me == conc.task[t] IN
        /\ Cardinality(Created(t)) <= 1
        /\ \A u \in Tasks \ {t} : Created(t) \cap Created(u) = {}
        /\ \A i \in DOMAIN me.calls :
               /\ me.calls[i].op \in {"write", "run", "kill"} =>
                      me.calls[i].target \in Created(t)
               /\ me.calls[i].ev # "gone"
        /\ \A id \in Created(t) :
               /\ conc.sandboxes[id].file \in {0, t}
               /\ Answer(me.calls, "kill") # "ok" => Alive(id)
        /\ Answer(me.calls, "run") = "ok" => me.ran = t
        /\ me.pc = "done" => me.outcome = Solo(me.kind, me.calls, me.exit_code)

C12_Witness ==
    /\ \A t \in Tasks : conc.task[t].pc = "done"
    /\ conc.task[1].sandbox = 2 /\ conc.task[2].sandbox = 1
    /\ conc.task[1].kind = "api" /\ conc.task[2].kind = "lib"
    /\ conc.task[1].outcome = AgentResponse(TRUE, <<"4">>, TRUE)
    /\ conc.task[2].outcome = Raise("WriteError", ProviderError("write"))

====
